---------------------------- MODULE Spec2Model ----------------------------
(***************************************************************************)
(* The RnG growth dashboard (streamlit-snowflake-app/src/app.py, utils.py) *)
(* as a state machine.  One step is one rerun of main(): a navigation      *)
(* click or a change of the date inputs, followed by the whole pipeline of *)
(* the selected view (query, derived metrics, pivot, sort, delta).         *)
(*                                                                         *)
(* Numbers are pandas float64 cells.  A cell is NaN, +inf, -inf or a       *)
(* finite value; finite values are kept as exact fractions n/d in lowest   *)
(* terms, so that round(k) is an operation that can be told apart from     *)
(* the identity.  Binary representation error of float64 is not modelled.  *)
(***************************************************************************)
EXTENDS Integers, Sequences, FiniteSets

VARIABLES
    conn_cache,      \* the entry of get_connection in st.cache_resource
    connects,        \* connection objects snowflake.connector.connect has returned
    conn,            \* the connection the last run of main() worked with
    last_click,      \* the navigation button the user clicked last
    nav_selection,   \* st.session_state.nav_selection
    selected_date,   \* value of the "Select a date" input of the current view
    compare_date,    \* value of the "Compare with" input of the current view
    warehouse,       \* contents of the warehouse tables (read-only for the app)
    df,              \* the frame loaded by the last run, derived columns included
    rendered,        \* what the last run put on the page
    sort_in,         \* sorter harness: the frame first handed to sort_category_cohorts
    sort_runs        \* sorter harness: the frames its successive calls returned

vars == <<conn_cache, connects, conn, last_click, nav_selection, selected_date,
          compare_date, warehouse, df, rendered, sort_in, sort_runs>>

---------------------------------------------------------------------------
(* Bounds of the model *)

\* rows held by a warehouse table (one more in the hourly table)
MaxRows == 2
\* rows of a frame handed to the sorter harness
MaxSortLen == 3
\* successive calls of the sorter in the harness
MaxSortCalls == 2

\* timedelta(days=7): the default distance of the compare date
WeekDays == 7

\* datetime.now().date(), as a day number (day 0 is a Monday)
Today == 2 * WeekDays

\* the days the model's users pick and the model's data carries
Dates == { Today - WeekDays, Today }

---------------------------------------------------------------------------
(* float64 cells *)

Abs(x) == IF x < 0 THEN -x ELSE x

RECURSIVE GCD(_, _)
GCD(a, b) == IF b = 0 THEN a ELSE GCD(b, a % b)

NaN  == [t |-> "nan", n |-> 0, d |-> 1]
PInf == [t |-> "inf", n |-> 1, d |-> 1]
NInf == [t |-> "inf", n |-> -1, d |-> 1]

\* the finite value n/d (d > 0), in lowest terms
Frac(n, d) ==
    LET g == GCD(Abs(n), d)
    IN  [t |-> "num", n |-> n \div g, d |-> d \div g]

Num(i) == Frac(i, 1)

IsNaN(x) == x.t = "nan"
IsInf(x) == x.t = "inf"
IsNum(x) == x.t = "num"
IsZero(x) == x.t = "num" /\ x.n = 0
Sign(x) == IF x.n > 0 THEN 1 ELSE IF x.n < 0 THEN -1 ELSE 0
InfOf(s) == IF s > 0 THEN PInf ELSE NInf

\* a + b
FAdd(a, b) ==
    IF IsNaN(a) \/ IsNaN(b) THEN NaN
    ELSE IF IsInf(a) /\ IsInf(b) THEN (IF a.n = b.n THEN a ELSE NaN)
    ELSE IF IsInf(a) THEN a
    ELSE IF IsInf(b) THEN b
    ELSE Frac(a.n * b.d + b.n * a.d, a.d * b.d)

FNeg(a) == IF IsNaN(a) THEN NaN ELSE [t |-> a.t, n |-> -a.n, d |-> a.d]

\* a - b
FSub(a, b) == FAdd(a, FNeg(b))

\* a / b: x/0 is +-inf, 0/0 is NaN, x/inf is 0
FDiv(a, b) ==
    IF IsNaN(a) \/ IsNaN(b) THEN NaN
    ELSE IF IsInf(a) /\ IsInf(b) THEN NaN
    ELSE IF IsInf(a) THEN InfOf(a.n * (IF b.n < 0 THEN -1 ELSE 1))
    ELSE IF IsInf(b) THEN Num(0)
    ELSE IF b.n = 0 THEN (IF a.n = 0 THEN NaN ELSE InfOf(a.n))
    ELSE Frac(a.n * b.d * Sign(b), a.d * Abs(b.n))

\* a * 100
FMul100(a) == IF IsNum(a) THEN Frac(a.n * 100, a.d) ELSE a

Pow10(k) == IF k = 0 THEN 1 ELSE IF k = 1 THEN 10 ELSE IF k = 2 THEN 100
            ELSE IF k = 3 THEN 1000 ELSE 10000

\* numpy round to k decimals: nearest, ties to even; NaN and inf unchanged
FRound(a, k) ==
    IF ~IsNum(a) THEN a
    ELSE LET s == a.n * Pow10(k)
             q == s \div a.d
             r == s % a.d
             up == (2 * r > a.d) \/ (2 * r = a.d /\ q % 2 = 1)
         IN  Frac(IF up THEN q + 1 ELSE q, Pow10(k))

\* pandas "== 0" on a cell: False for NaN and inf
EqZero(a) == IsZero(a)

\* groupby(...).sum(): NaN skipped, 0 for a group with no value
RECURSIVE AggSum(_)
AggSum(vals) ==
    IF vals = <<>> THEN Num(0)
    ELSE IF IsNaN(Head(vals)) THEN AggSum(Tail(vals))
    ELSE FAdd(Head(vals), AggSum(Tail(vals)))

NonNull(vals) == SelectSeq(vals, LAMBDA v : ~IsNaN(v))

\* groupby(...).mean(): NaN skipped, NaN for a group with no value
AggMean(vals) ==
    IF NonNull(vals) = <<>> THEN NaN
    ELSE FDiv(AggSum(vals), Num(Len(NonNull(vals))))

Agg(aggfunc, vals) == IF aggfunc = "mean" THEN AggMean(vals) ELSE AggSum(vals)

---------------------------------------------------------------------------
(* sequences *)

Range(s) == { s[i] : i \in DOMAIN s }

Map(s, Op(_)) == [i \in DOMAIN s |-> Op(s[i])]

\* position of x in s, 0 when absent
IndexOf(s, x) == IF \E i \in DOMAIN s : s[i] = x
                 THEN CHOOSE i \in DOMAIN s : s[i] = x /\ \A j \in 1..(i-1) : s[j] # x
                 ELSE 0

\* the elements of the set S in the order given by the sequence order
InOrder(order, S) == SelectSeq(order, LAMBDA x : x \in S)

\* the rearrangements of s
Rearrangements(s) ==
    LET n == Len(s)
        P == { p \in [1..n -> 1..n] : \A i, j \in 1..n : p[i] = p[j] => i = j }
    IN  { [i \in 1..n |-> s[p[i]]] : p \in P }

\* the integers of S in increasing order
RECURSIVE SortedInts(_)
SortedInts(S) ==
    IF S = {} THEN <<>>
    ELSE LET m == CHOOSE x \in S : \A y \in S : x <= y
         IN  <<m>> \o SortedInts(S \ {m})

\* the elements of S as a sequence, in some fixed order
RECURSIVE SetToSeq(_)
SetToSeq(S) ==
    IF S = {} THEN <<>>
    ELSE LET x == CHOOSE y \in S : TRUE
         IN  <<x>> \o SetToSeq(S \ {x})

\* the non-decreasing sequences over 1..m of length at most n
RECURSIVE IndexSeqs(_, _)
IndexSeqs(m, n) ==
    IF n = 0 THEN {<<>>}
    ELSE LET P == IndexSeqs(m, n - 1)
             L == { p \in P : Len(p) = n - 1 }
         IN  P \cup UNION { { Append(p, i) :
                              i \in (IF p = <<>> THEN 1 ELSE p[Len(p)])..m } : p \in L }

\* the tables of at most n rows over the rows of alphabet, one per bag of rows
TablesOver(alphabet, n) ==
    { [i \in DOMAIN p |-> alphabet[p[i]]] : p \in IndexSeqs(Len(alphabet), n) }

---------------------------------------------------------------------------
(* utils.sort_category_cohorts *)

custom_order ==
    << <<"NU", "New Users">>,
       <<"RU_last30_Days", "RU1-5">>,
       <<"RU_last30_Days", "RU6-10">>,
       <<"RU_last30_Days", "RU10+">>,
       <<"DU_30_45_Days", "RU1-5">>,
       <<"DU_30_45_Days", "RU6-10">>,
       <<"DU_30_45_Days", "RU10+">>,
       <<"DU_45+_Days", "RU1-5">>,
       <<"DU_45+_Days", "RU6-10">>,
       <<"DU_45+_Days", "RU10+">>,
       <<"Unassigned", "Unassigned">> >>

\* the "__sort_order" column: custom_order.index(pair), len(custom_order) when absent
\* a lookup that answers -1 for a pair missing from the list, as str.find or
\* a defaulted index would
SortOrderOf_MissingFirst(row) ==
    IndexOf(custom_order, <<row.category, row.cohorts>>) - 1

SortOrderOf(row) ==
    LET i == IndexOf(custom_order, <<row.category, row.cohorts>>)
    IN  IF i > 0 THEN i - 1 ELSE Len(custom_order)

\* DataFrame.sort_values(col) with the default kind="quicksort", which is not a
\* stable sort: the rows come out ordered by the column, rows with equal values in
\* an order the library leaves open.  The set of the frames it may return.
sort_values(frame, col) ==
    { s \in Rearrangements(frame) :
        \A i, j \in DOMAIN s : i < j => s[i][col] <= s[j][col] }

\* df[col] = values: the rows with one more column
with_column(frame, col, values) ==
    [i \in DOMAIN frame |->
        [f \in DOMAIN frame[i] \cup {col} |->
            IF f = col THEN values[i] ELSE frame[i][f]]]

\* df.drop(columns=[col])
drop_column(frame, col) ==
    [i \in DOMAIN frame |-> [f \in DOMAIN frame[i] \ {col} |-> frame[i][f]]]

\* the frames sort_category_cohorts(frame) may return; a frame without the
\* columns category and cohorts comes back as it is
sort_category_cohorts(frame) ==
    IF frame # <<>> /\ {"category", "cohorts"} \subseteq DOMAIN frame[1]
    THEN { drop_column(s, "__sort_order") :
             s \in sort_values(with_column(frame, "__sort_order",
                                           [i \in DOMAIN frame |-> SortOrderOf(frame[i])]),
                               "__sort_order") }
    ELSE { frame }

---------------------------------------------------------------------------
(* DataFrame.pivot_table *)

\* Python's order of the strings that occur as row keys
LexKeys ==
    << <<"DU_30_45_Days", "RU1-5">>,
       <<"Foo", "Bar">>,
       <<"NU", "New Users">>,
       <<"RU_last30_Days", "RU1-5">>,
       <<"Unassigned", "Unassigned">> >>

\* a reshape that spreads the column level without grouping: one output row
\* per long row
pivot_table_no_agg(long, aggfunc, lex) ==
    LET colset == { c.col : c \in Range(long) }
    IN  [columns |-> SortedInts(colset),
         rows |-> [i \in DOMAIN long |->
                    [key |-> long[i].key,
                     cells |-> [c \in colset |->
                                 IF c = long[i].col THEN long[i].val ELSE NaN]]]]

\* pivot_table(values, index, columns, aggfunc) over the long rows
\* [key, col, val]: group by (key, col), aggregate, drop the groups whose
\* aggregate is NaN, unstack the column level (absent cells are NaN); keys and
\* columns come out sorted (lex is the sorted list of the possible keys).
pivot_table(long, aggfunc, lex) ==
    LET groups == { <<c.key, c.col>> : c \in Range(long) }
        vals(g) == Map(SelectSeq(long, LAMBDA c : c.key = g[1] /\ c.col = g[2]),
                       LAMBDA c : c.val)
        agged == [g \in groups |-> Agg(aggfunc, vals(g))]
        kept == { g \in groups : ~IsNaN(agged[g]) }
        index == InOrder(lex, { g[1] : g \in kept })
        colset == { g[2] : g \in kept }
    IN  [columns |-> SortedInts(colset),
         rows |-> [i \in DOMAIN index |->
                    [key |-> index[i],
                     cells |-> [c \in colset |->
                                 IF <<index[i], c>> \in kept
                                 THEN agged[<<index[i], c>>] ELSE NaN]]]]

\* DataFrame.round(k) on a frame of float columns
round_frame(p, k) ==
    [columns |-> p.columns,
     rows |-> Map(p.rows, LAMBDA r :
                [key |-> r.key, cells |-> [c \in DOMAIN r.cells |-> FRound(r.cells[c], k)]])]

\* reset_index() / set_index(['category', 'cohorts'])
reset_index(rows) ==
    Map(rows, LAMBDA r : [category |-> r.key[1], cohorts |-> r.key[2], cells |-> r.cells])

set_index(rows) ==
    Map(rows, LAMBDA r : [key |-> <<r.category, r.cohorts>>, cells |-> r.cells])

---------------------------------------------------------------------------
(* the comparison columns of the DoD and city views *)

\* the filter computed but its result not kept
DropZeroRows_Unassigned(rows, dates) == rows

\* pivot_df[~((pivot_df[dates[0]] == 0) & (pivot_df[dates[1]] == 0))]
DropZeroRows(rows, dates) ==
    SelectSeq(rows, LAMBDA r : ~(EqZero(r.cells[dates[1]]) /\ EqZero(r.cells[dates[2]])))

\* pivot_df[dates[1]] - pivot_df[dates[0]]
AbsoluteDiff(sel, cmp) == FSub(sel, cmp)

\* the change taken relative to the selected value
PctChange_OverSelected(sel, cmp) == FRound(FMul100(FDiv(FSub(sel, cmp), sel)), 1)

\* ((pivot_df[dates[1]] - pivot_df[dates[0]]) / pivot_df[dates[0]] * 100).round(1)
PctChange(sel, cmp) == FRound(FMul100(FDiv(FSub(sel, cmp), cmp)), 1)

\* the frame shown when the pivot has two date columns: '% Change',
\* 'Absolute Diff', 'Selected (dates[1])', 'Compare (dates[0])'
DeltaTable(rows, dates) ==
    Map(DropZeroRows(rows, dates), LAMBDA r :
        [key |-> r.key,
         pct |-> PctChange(r.cells[dates[2]], r.cells[dates[1]]),
         abs |-> AbsoluteDiff(r.cells[dates[2]], r.cells[dates[1]]),
         selected |-> r.cells[dates[2]],
         compare |-> r.cells[dates[1]],
         selected_label |-> dates[2],
         compare_label |-> dates[1]])

\* a format string '{:[+][,].<decimals>f}<suffix>'
Fmt(plus, comma, decimals, suffix) ==
    [plus |-> plus, comma |-> comma, decimals |-> decimals, suffix |-> suffix]

\* fmt.format(x) on a float cell: the text, as its sign, the integer part
\* (grouped by commas or not), the digits after the point and the suffix;
\* NaN and inf give 'nan' and 'inf'
PyFormat(fmt, x) ==
    LET a == IF IsNum(x) THEN FRound(Frac(Abs(x.n), x.d), fmt.decimals) ELSE x
        scaled == IF IsNum(x) THEN (a.n * Pow10(fmt.decimals)) \div a.d ELSE 0
    IN  [kind |-> x.t,
         sign |-> IF ~IsNaN(x) /\ x.n < 0 THEN "-" ELSE IF fmt.plus THEN "+" ELSE "",
         whole |-> scaled \div Pow10(fmt.decimals),
         comma |-> fmt.comma,
         frac |-> scaled % Pow10(fmt.decimals),
         decimals |-> fmt.decimals,
         suffix |-> fmt.suffix]

\* pivot_df.style.format(format_dict): the texts of the rows of the table
Styled(table, format_dict) ==
    [i \in DOMAIN table |->
        [pct |-> PyFormat(format_dict.pct, table[i].pct),
         abs |-> PyFormat(format_dict.abs, table[i].abs),
         selected |-> PyFormat(format_dict.selected, table[i].selected),
         compare |-> PyFormat(format_dict.compare, table[i].compare)]]

\* the guard written "if len(dates) >= 1": the table built for a one-date
\* pivot too, from its first and its last date column
MetricBlock_AnyDates(rows, dates, format_dict) ==
    LET ends == IF dates = <<>> THEN dates ELSE <<dates[1], dates[Len(dates)]>>
    IN  [pivot |-> rows,
         dates |-> dates,
         shown |-> Len(dates) >= 1,
         table |-> IF Len(dates) >= 1 THEN DeltaTable(rows, ends) ELSE <<>>,
         styled |-> IF Len(dates) >= 1 THEN Styled(DeltaTable(rows, ends), format_dict)
                    ELSE <<>>]

\* what one pass of the metric loop leaves on the page: the pivot, and the
\* comparison table with its texts when the pivot has exactly two date columns
MetricBlock(rows, dates, format_dict) ==
    [pivot |-> rows,
     dates |-> dates,
     shown |-> Len(dates) = 2,
     table |-> IF Len(dates) = 2 THEN DeltaTable(rows, dates) ELSE <<>>,
     styled |-> IF Len(dates) = 2 THEN Styled(DeltaTable(rows, dates), format_dict)
                ELSE <<>>]

---------------------------------------------------------------------------
(* the DoD view *)

DailyKeys == { <<"NU", "New Users">>, <<"DU_30_45_Days", "RU1-5">> }

\* the measure triples (base, visitors, transacting_users) of the model's rows
DailyMeasures ==
    { <<Num(0), Num(0), Num(0)>>,
      <<Num(0), Num(4), Num(0)>>,
      <<Num(900), Num(0), Num(0)>>,
      <<Num(900), Num(0), Num(2)>>,
      <<Num(1000), Num(0), Num(0)>>,
      <<Num(1000), Num(3), Num(2)>>,
      <<NaN, NaN, NaN>> }

DailyRows ==
    { [category |-> k[1], cohorts |-> k[2], start_date |-> d,
       base |-> m[1], visitors |-> m[2], transacting_users |-> m[3]] :
      k \in DailyKeys, d \in Dates, m \in DailyMeasures }

DailyTables == TablesOver(SetToSeq(DailyRows), MaxRows)

\* SELECT * FROM TEMP.PUBLIC.RNG_DAILY WHERE start_date IN (selected, compare)
QueryDaily(table, sel, cmp) ==
    SelectSeq(table, LAMBDA r : r.start_date \in {sel, cmp})

\* the three derived columns the model keeps of lines 276-278
DoDDerived(r) ==
    [category |-> r.category, cohorts |-> r.cohorts, start_date |-> r.start_date,
     base |-> r.base, visitors |-> r.visitors, transacting_users |-> r.transacting_users,
     tu_vu_pct |-> FRound(FMul100(FDiv(r.transacting_users, r.visitors)), 2),
     vu_pct |-> FRound(FMul100(FDiv(r.visitors, r.base)), 2)]

\* the frame a KeyError on df[missing] leaves behind: line 276 has run when
\* the lookup that fails is the one of line 277
DoDDerivedUntil(data, missing) ==
    IF missing = "base"
    THEN with_column(data, "tu_vu_pct",
                     [i \in DOMAIN data |->
                        FRound(FMul100(FDiv(data[i].transacting_users, data[i].visitors)), 2)])
    ELSE data

DoDMetrics == <<"base", "transacting_users", "visitors", "tu_vu_pct", "vu_pct">>

\* df[metric] of one row
MetricOf(r, metric) ==
    CASE metric = "base" -> r.base
      [] metric = "transacting_users" -> r.transacting_users
      [] metric = "visitors" -> r.visitors
      [] metric = "tu_vu_pct" -> r.tu_vu_pct
      [] metric = "vu_pct" -> r.vu_pct

\* df[(~df['category'].isin(['NU', 'Unassigned'])) & (df['base'] != 0)]
VuPctFilter(frame) ==
    SelectSeq(frame, LAMBDA r : r.category \notin {"NU", "Unassigned"} /\ ~EqZero(r.base))

\* the filter applied whatever the metric
DoDMetricFrame_FilterAlways(frame, metric) == VuPctFilter(frame)

DoDMetricFrame(frame, metric) ==
    IF metric = "vu_pct" THEN VuPctFilter(frame) ELSE frame

DoDAggFunc(metric) == "sum"

\* df_metric.pivot_table(values=metric, index=['category', 'cohorts'],
\*                       columns='start_date', aggfunc='sum').round(2)
DoDPivot(frame, metric) ==
    round_frame(
        pivot_table(Map(DoDMetricFrame(frame, metric), LAMBDA r :
                        [key |-> <<r.category, r.cohorts>>, col |-> r.start_date,
                         val |-> MetricOf(r, metric)]),
                    DoDAggFunc(metric), LexKeys),
        2)

\* format_dict of the DoD view, lines 358-369
DoDFormatDict(metric) ==
    LET period == IF metric \in {"tu_vu_pct", "vu_pct"} THEN Fmt(FALSE, FALSE, 1, "%")
                  ELSE IF metric = "repeat_rate" THEN Fmt(FALSE, FALSE, 2, "")
                  ELSE Fmt(FALSE, TRUE, 2, "")
    IN  [pct |-> Fmt(TRUE, FALSE, 1, "%"),
         abs |-> Fmt(TRUE, TRUE, 2, ""),
         selected |-> period,
         compare |-> period]

\* the blocks one pass of the DoD metric loop may render for metric
DoDBlocks(frame, metric) ==
    LET p == DoDPivot(frame, metric)
    IN  { MetricBlock(set_index(s), p.columns, DoDFormatDict(metric)) :
            s \in sort_category_cohorts(reset_index(p.rows)) }

\* the functions that pick one element of opts[m] for every m
RECURSIVE Picks(_)
Picks(opts) ==
    IF DOMAIN opts = {} THEN { [x \in {} |-> <<>>] }
    ELSE LET m == CHOOSE x \in DOMAIN opts : TRUE
             rest == Picks([x \in DOMAIN opts \ {m} |-> opts[x]])
         IN  { [x \in DOMAIN opts |-> IF x = m THEN b ELSE r[x]] :
                 b \in opts[m], r \in rest }

NoBlocks == [x \in {} |-> <<>>]

\* no st.error on the page
NoError == [prefix |-> "", detail |-> ""]

\* str(e) of the exception a failing cursor.execute raises
QueryFailed == "query failed"

\* main()'s handler, "except Exception as e:
\* st.error(f"Failed to connect to Snowflake: {str(e)}")": the page a run that
\* raised e in the branch of view ends with
OuterExcept(view, e) ==
    [view |-> view, info |-> "", blocks |-> NoBlocks,
     error |-> [prefix |-> "Failed to connect to Snowflake", detail |-> e]]

\* the measure columns the derived metrics read, in the order of their first
\* use: df['transacting_users'] / df['visitors'], then df['visitors'] / df['base']
MeasureOrder == <<"transacting_users", "visitors", "base">>

\* the column whose lookup raises KeyError, "" when all are there
MissingMeasure(data) ==
    LET absent == SelectSeq(MeasureOrder, LAMBDA c : c \notin DOMAIN data[1])
    IN  IF absent = <<>> THEN "" ELSE absent[1]

\* main(), nav_selection == "dod": the frames and pages one run may produce
DoDView(wh, sel, cmp) ==
    LET data == QueryDaily(wh.rng_daily, sel, cmp)
        frame == Map(data, DoDDerived)
    IN  IF ~wh.up
        THEN { [df |-> <<>>, page |-> OuterExcept("dod", QueryFailed)] }
        ELSE IF data = <<>>
        THEN { [df |-> <<>>,
                page |-> [view |-> "dod", info |-> "No data found", blocks |-> NoBlocks, error |-> NoError]] }
        ELSE IF MissingMeasure(data) # ""
        THEN { [df |-> DoDDerivedUntil(data, MissingMeasure(data)),
                page |-> OuterExcept("dod", MissingMeasure(data))] }
        ELSE { [df |-> frame,
                page |-> [view |-> "dod", info |-> "", blocks |-> b, error |-> NoError]] :
               b \in Picks([m \in Range(DoDMetrics) |-> DoDBlocks(frame, m)]) }

---------------------------------------------------------------------------
(* the city view *)

LexCities == << <<"BLR">>, <<"DEL">> >>

\* the measure triples (base, visitors, transacting_users) of the model's city rows
CityMeasures ==
    { <<Num(0), Num(0), Num(0)>>,
      <<Num(900), Num(4), Num(2)>>,
      <<Num(1000), Num(3), Num(2)>> }

CityRows ==
    { [city |-> c[1], category |-> k[1], cohorts |-> k[2], start_date |-> d,
       base |-> m[1], visitors |-> m[2], transacting_users |-> m[3]] :
      c \in Range(LexCities), k \in DailyKeys, d \in Dates, m \in CityMeasures }

CityTables == TablesOver(SetToSeq(CityRows), MaxRows)

\* SELECT * FROM TEMP.PUBLIC.RNG_CITY_DAILY WHERE start_date IN (selected, compare)
QueryCity(table, sel, cmp) ==
    SelectSeq(table, LAMBDA r : r.start_date \in {sel, cmp})

\* series.replace(0, pd.NA) makes the series an object series when it holds a 0
HasZero(frame, col) == \E r \in Range(frame) : EqZero(r[col])

\* DataFrame.round(k) / Series.round(k) on one cell: object columns are left
\* as they are
round_cell(x, k, is_object) == IF is_object THEN x ELSE FRound(x, k)

\* (df['transacting_users'] / df['visitors'].replace(0, pd.NA) * 100).round(2)
CityTuVuPct(data) ==
    [i \in DOMAIN data |->
        round_cell(FMul100(FDiv(data[i].transacting_users,
                                IF EqZero(data[i].visitors) THEN NaN ELSE data[i].visitors)),
                   2, HasZero(data, "visitors"))]

\* (df['visitors'] / df['base'] * 100).round(2)
CityVuPct(data) ==
    [i \in DOMAIN data |-> FRound(FMul100(FDiv(data[i].visitors, data[i].base)), 2)]

\* the frame with the derived columns the model keeps of lines 417-418
CityFrame(data) ==
    with_column(with_column(data, "tu_vu_pct_city", CityTuVuPct(data)),
                "vu_pct_city", CityVuPct(data))

\* the frame a KeyError on df[missing] leaves behind
CityFrameUntil(data, missing) ==
    IF missing = "base" THEN with_column(data, "tu_vu_pct_city", CityTuVuPct(data))
    ELSE data

CityMetrics == <<"base", "visitors", "vu_pct_city">>

CityMetricOf(r, metric) ==
    CASE metric = "base" -> r.base
      [] metric = "visitors" -> r.visitors
      [] metric = "vu_pct_city" -> r.vu_pct_city

CityMetricFrame(frame, metric) ==
    IF metric = "vu_pct_city" THEN VuPctFilter(frame) ELSE frame

CityAggFunc(metric) ==
    IF metric \in {"tu_vu_pct_city", "vu_pct_city", "repeat_rate_city"}
    THEN "mean" ELSE "sum"

\* df_metric.pivot_table(values=metric, index=['city'], columns='start_date',
\*                       aggfunc=agg_func).round(2)
CityPivot(frame, metric) ==
    round_frame(
        pivot_table(Map(CityMetricFrame(frame, metric), LAMBDA r :
                        [key |-> <<r.city>>, col |-> r.start_date,
                         val |-> CityMetricOf(r, metric)]),
                    CityAggFunc(metric), LexCities),
        2)

\* a > b on cells that are not NaN
FGt(a, b) ==
    IF IsInf(a) THEN a.n > 0 /\ ~(IsInf(b) /\ b.n > 0)
    ELSE IF IsInf(b) THEN b.n < 0
    ELSE a.n * b.d > b.n * a.d

\* df[df['start_date'] == max(df['start_date'])].groupby('city')['base'].sum(),
\* mapped on the city of a pivot row: NaN for a city without rows on that date
CitySortKey(frame, city) ==
    LET latest == CHOOSE d \in { r.start_date : r \in Range(frame) } :
                      \A r \in Range(frame) : r.start_date <= d
        rows == SelectSeq(frame, LAMBDA r : r.start_date = latest /\ r.city = city)
    IN  IF rows = <<>> THEN NaN ELSE AggSum(Map(rows, LAMBDA r : r.base))

\* sort_values('sort_key', ascending=False): descending, NaN last, rows with
\* equal keys in an order the library leaves open
sort_values_desc(rows, col) ==
    { s \in Rearrangements(rows) :
        \A i, j \in DOMAIN s : i < j =>
            ~( (IsNaN(s[i][col]) /\ ~IsNaN(s[j][col]))
               \/ (~IsNaN(s[i][col]) /\ ~IsNaN(s[j][col]) /\ FGt(s[j][col], s[i][col])) ) }

\* format_dict of the city view, lines 512-523
CityFormatDict(metric) ==
    LET period == IF metric \in {"tu_vu_pct_city", "vu_pct_city"}
                  THEN Fmt(FALSE, FALSE, 1, "%")
                  ELSE IF metric = "repeat_rate_city" THEN Fmt(FALSE, FALSE, 2, "")
                  ELSE Fmt(FALSE, TRUE, 0, "")
    IN  [pct |-> Fmt(TRUE, FALSE, 1, "%"),
         abs |-> Fmt(TRUE, TRUE, 0, ""),
         selected |-> period,
         compare |-> period]

\* the blocks one pass of the city metric loop may render for metric
CityBlocks(frame, metric) ==
    LET p == CityPivot(frame, metric)
    IN  { MetricBlock(s, p.columns, CityFormatDict(metric)) :
            s \in { drop_column(t, "sort_key") :
                    t \in sort_values_desc(
                            with_column(p.rows, "sort_key",
                                        [i \in DOMAIN p.rows |->
                                            CitySortKey(frame, p.rows[i].key[1])]),
                            "sort_key") } }

\* main(), nav_selection == "city"
CityView(wh, sel, cmp) ==
    LET data == QueryCity(wh.rng_city_daily, sel, cmp)
    IN  IF ~wh.up
        THEN { [df |-> <<>>, page |-> OuterExcept("city", QueryFailed)] }
        ELSE IF data = <<>>
        THEN { [df |-> <<>>,
                page |-> [view |-> "city", info |-> "No data found", blocks |-> NoBlocks, error |-> NoError]] }
        ELSE IF MissingMeasure(data) # ""
        THEN { [df |-> CityFrameUntil(data, MissingMeasure(data)),
                page |-> OuterExcept("city", MissingMeasure(data))] }
        ELSE { [df |-> CityFrame(data),
                page |-> [view |-> "city", info |-> "", blocks |-> b, error |-> NoError]] :
               b \in Picks([m \in Range(CityMetrics) |-> CityBlocks(CityFrame(data), m)]) }

---------------------------------------------------------------------------
(* the hourly DPO view *)

Hours == {9, 10}

\* a cell of pct_disc_orders that is no number
NotNumeric == [t |-> "text", n |-> 0, d |-> 1]

\* the measure pairs (dpo_fc, pct_disc_orders) of the model's hourly rows
HourlyMeasures ==
    { <<Num(0), NotNumeric>>,
      <<Num(3), Frac(25, 2)>>,
      <<Num(4), Frac(401, 20)>> }

\* the rows of the model's hourly table; the zero measure is carried by the
\* first hour of NU only, and the rows of the other key carry one measure pair
HourlyRows ==
    { r \in { [category |-> k[1], cohorts |-> k[2], order_hour |-> h, start_date |-> d,
               dpo_fc |-> m[1], pct_disc_orders |-> m[2]] :
              k \in DailyKeys, h \in Hours, d \in Dates, m \in HourlyMeasures } :
        /\ IsZero(r.dpo_fc) => (r.category = "NU" /\ \A h \in Hours : r.order_hour <= h)
        /\ r.category # "NU" => r.dpo_fc = Num(3) }

HourlyTables == TablesOver(SetToSeq(HourlyRows), MaxRows + 1)

\* SELECT * FROM temp.public.rng_hourly_dpo WHERE start_date IN (selected, compare)
QueryHourly(table, sel, cmp) ==
    SelectSeq(table, LAMBDA r : r.start_date \in {sel, cmp})

\* pd.to_numeric(..., errors='coerce') on one cell
to_numeric(x) == IF x.t = "text" THEN NaN ELSE x

HourlyLoaded(r) ==
    [category |-> r.category, cohorts |-> r.cohorts, order_hour |-> r.order_hour,
     start_date |-> r.start_date, dpo_fc |-> r.dpo_fc,
     pct_disc_orders |-> to_numeric(r.pct_disc_orders)]

HourlyMetrics == <<"dpo_fc", "pct_disc_orders">>

HourlyMetricOf(r, metric) ==
    IF metric = "dpo_fc" THEN r.dpo_fc ELSE r.pct_disc_orders

\* df[df['start_date'] == day].pivot_table(values=metric,
\*     index=['category', 'cohorts'], columns='order_hour', aggfunc='mean')
\*     .round(4 if metric == 'pct_disc_orders' else 2)
HourlyPivot(frame, day, metric) ==
    round_frame(
        pivot_table(Map(SelectSeq(frame, LAMBDA r : r.start_date = day), LAMBDA r :
                        [key |-> <<r.category, r.cohorts>>, col |-> r.order_hour,
                         val |-> HourlyMetricOf(r, metric)]),
                    "mean", LexKeys),
        IF metric = "pct_disc_orders" THEN 4 ELSE 2)

KeysOf(rows) == Map(rows, LAMBDA r : r.key)

\* one side of left.align(right, join='outer', axis=0, fill_value=0): the rows
\* of p on the joined index, a row that p lacks holding 0 in each column of p
AlignRows(p, index) ==
    [i \in DOMAIN index |->
        IF \E r \in Range(p.rows) : r.key = index[i]
        THEN CHOOSE r \in Range(p.rows) : r.key = index[i]
        ELSE [key |-> index[i], cells |-> [c \in Range(p.columns) |-> Num(0)]]]

\* the joined index: the left one when both are equal, else the sorted union
JoinIndex(left, right) ==
    IF KeysOf(left.rows) = KeysOf(right.rows) THEN KeysOf(left.rows)
    ELSE InOrder(LexKeys, Range(KeysOf(left.rows)) \cup Range(KeysOf(right.rows)))

\* the columns of p that replace(0, pd.NA) turns into object columns: those
\* that hold a 0
ObjectColumns(rows, columns) ==
    { c \in Range(columns) : \E r \in Range(rows) : EqZero(r.cells[c]) }

\* frame.replace([pd.NA, inf, -inf], 0) on one cell: inf becomes 0 in every
\* column; NaN/NA becomes 0 in an object column, while a float64 column cannot
\* hold pd.NA, so that target is skipped there and NaN stays
replace_na_inf(x, is_object) ==
    IF IsInf(x) THEN Num(0)
    ELSE IF IsNaN(x) /\ is_object THEN Num(0)
    ELSE x

\* ((pivot_sel - pivot_cmp) / pivot_cmp.replace(0, pd.NA) * 100).round(1)
\*     .replace([pd.NA, inf, -inf], 0) on one cell
HourlyPctCell(s, c, is_object) ==
    replace_na_inf(
        round_cell(FMul100(FDiv(FSub(s, c), IF EqZero(c) THEN NaN ELSE c)), 1, is_object),
        is_object)

\* (pivot_sel - pivot_cmp).replace([pd.NA, inf, -inf], 0) on one cell
HourlyPpCell(s, c) == replace_na_inf(FSub(s, c), FALSE)

CellAt(row, columns, h) == IF h \in Range(columns) THEN row.cells[h] ELSE NaN

\* the "% Change (Selected vs Compare)" frame of one metric, with the two
\* pivots as align(join='outer', axis=0, fill_value=0) returns them: rows on the
\* joined index, the columns of each left as they were
HourlyChange(psel, pcmp, metric) ==
    LET index == JoinIndex(psel, pcmp)
        srows == AlignRows(psel, index)
        crows == AlignRows(pcmp, index)
        columns == SortedInts(Range(psel.columns) \cup Range(pcmp.columns))
        objs == ObjectColumns(crows, pcmp.columns)
    IN  [index |-> index,
         columns |-> columns,
         aligned_sel |-> [columns |-> psel.columns, rows |-> srows],
         aligned_cmp |-> [columns |-> pcmp.columns, rows |-> crows],
         rows |-> [i \in DOMAIN index |->
                    [key |-> index[i],
                     selected |-> [h \in Range(columns) |-> CellAt(srows[i], psel.columns, h)],
                     compare |-> [h \in Range(columns) |-> CellAt(crows[i], pcmp.columns, h)],
                     pct |-> [h \in Range(columns) |->
                               IF metric = "pct_disc_orders"
                               THEN HourlyPpCell(CellAt(srows[i], psel.columns, h),
                                                 CellAt(crows[i], pcmp.columns, h))
                               ELSE HourlyPctCell(CellAt(srows[i], psel.columns, h),
                                                  CellAt(crows[i], pcmp.columns, h),
                                                  h \in objs)]]]]

NoFrame == [columns |-> <<>>, rows |-> <<>>]
NoChange == [index |-> <<>>, columns |-> <<>>, aligned_sel |-> NoFrame,
             aligned_cmp |-> NoFrame, rows |-> <<>>]

\* the blocks one pass of the hourly metric loop may render for metric
HourlyBlocks(frame, sel, cmp, metric) ==
    LET has_sel == \E r \in Range(frame) : r.start_date = sel
        has_cmp == \E r \in Range(frame) : r.start_date = cmp
        ps == HourlyPivot(frame, sel, metric)
        pc == HourlyPivot(frame, cmp, metric)
        sels == IF has_sel
                THEN { [columns |-> ps.columns, rows |-> set_index(s)] :
                         s \in sort_category_cohorts(reset_index(ps.rows)) }
                ELSE { NoFrame }
        cmps == IF has_cmp
                THEN { [columns |-> pc.columns, rows |-> set_index(s)] :
                         s \in sort_category_cohorts(reset_index(pc.rows)) }
                ELSE { NoFrame }
    IN  { [sel_shown |-> has_sel, pivot_sel |-> a,
           cmp_shown |-> has_cmp, pivot_cmp |-> b,
           shown |-> has_sel /\ has_cmp,
           change |-> IF has_sel /\ has_cmp THEN HourlyChange(a, b, metric) ELSE NoChange] :
          a \in sels, b \in cmps }

\* main(), nav_selection == "hourly_dpo"
HourlyView(wh, sel, cmp) ==
    LET data == QueryHourly(wh.rng_hourly_dpo, sel, cmp)
        frame == Map(data, HourlyLoaded)
    IN  IF ~wh.up
        THEN { [df |-> <<>>, page |-> OuterExcept("hourly_dpo", QueryFailed)] }
        ELSE IF data = <<>>
        THEN { [df |-> <<>>,
                page |-> [view |-> "hourly_dpo", info |-> "No data found", blocks |-> NoBlocks, error |-> NoError]] }
        ELSE { [df |-> frame,
                page |-> [view |-> "hourly_dpo", info |-> "", blocks |-> b, error |-> NoError]] :
               b \in Picks([m \in Range(HourlyMetrics) |-> HourlyBlocks(frame, sel, cmp, m)]) }

---------------------------------------------------------------------------
(* the chart view: the frame it loads and its derived columns *)

\* date.weekday(), Monday = 0; day 0 is a Monday
Weekday(d) == d % WeekDays

\* utils.fetch_weekly_data: Monday..selected of the selected week and the
\* same days of the week before
QueryWeekly(table, sel) ==
    LET current_monday == sel - Weekday(sel)
        days_to_include == (sel - current_monday) + 1
        prev_week_monday == current_monday - WeekDays
        prev_week_end == prev_week_monday + (days_to_include - 1)
    IN  SelectSeq(table, LAMBDA r :
            \/ (current_monday <= r.start_date /\ r.start_date <= sel)
            \/ (prev_week_monday <= r.start_date /\ r.start_date <= prev_week_end))

\* df['category'].replace(category_map)
category_map(c) ==
    CASE c = "DU_30_45_Days" -> "STDU"
      [] c = "DU_45+_Days" -> "LTDU"
      [] c = "RU_last30_Days" -> "RU"
      [] OTHER -> c

\* (num / den.replace(0, pd.NA) * 100).round(2) on one row; Series.round leaves
\* an object series as it is
ChartRatio(num, den, is_object) ==
    round_cell(FMul100(FDiv(num, IF EqZero(den) THEN NaN ELSE den)), 2, is_object)

\* lines 716-727: the loaded frame with the derived columns the model keeps
ChartFrame(data) ==
    Map(data, LAMBDA r :
        [category |-> category_map(r.category), cohorts |-> r.cohorts,
         start_date |-> r.start_date, base |-> r.base, visitors |-> r.visitors,
         transacting_users |-> r.transacting_users,
         tu_vu_pct |-> ChartRatio(r.transacting_users, r.visitors,
                                  HasZero(data, "visitors")),
         vu_pct |-> ChartRatio(r.visitors, r.base, HasZero(data, "base"))])

\* the frame a KeyError on df[missing] leaves behind (category renamed,
\* line 726 run when the lookup that fails is the one of line 727)
ChartFrameUntil(data, missing) ==
    LET renamed == with_column(data, "category",
                               [i \in DOMAIN data |-> category_map(data[i].category)])
    IN  IF missing = "base"
        THEN with_column(renamed, "tu_vu_pct",
                         [i \in DOMAIN data |->
                            ChartRatio(data[i].transacting_users, data[i].visitors,
                                       HasZero(data, "visitors"))])
        ELSE renamed

\* utils.fetch_weekly_data: the frame of the query, or, when the query raises,
\* st.error(f"Error fetching weekly data: {e}") and an empty frame
fetch_weekly_data(wh, sel) ==
    IF wh.up
    THEN [frame |-> QueryWeekly(wh.rng_daily, sel), error |-> NoError]
    ELSE [frame |-> <<>>,
          error |-> [prefix |-> "Error fetching weekly data", detail |-> QueryFailed]]

\* main(), nav_selection == "chart" (the plots are not part of the model)
ChartView(wh, sel) ==
    LET data == fetch_weekly_data(wh, sel)
    IN  IF data.frame = <<>>
        THEN { [df |-> <<>>,
                page |-> [view |-> "chart", info |-> "No data available", blocks |-> NoBlocks,
                          error |-> data.error]] }
        ELSE IF MissingMeasure(data.frame) # ""
        THEN { [df |-> ChartFrameUntil(data.frame, MissingMeasure(data.frame)),
                page |-> OuterExcept("chart", MissingMeasure(data.frame))] }
        ELSE { [df |-> ChartFrame(data.frame),
                page |-> [view |-> "chart", info |-> "", blocks |-> NoBlocks, error |-> NoError]] }

---------------------------------------------------------------------------
(* main() *)

None == "None"

\* 'nav_selection' not in st.session_state
Unset == "Unset"

nav_options ==
    << <<"Home", None>>,
       <<"DoD View", "dod">>,
       <<"City Level DoD", "city">>,
       <<"Hourly DPO", "hourly_dpo">>,
       <<"RNG Chart", "chart">> >>

\* the keys of nav_options
NavKeys == { o[2] : o \in Range(nav_options) }

\* a run in which no navigation button was clicked
NoClick == "NoClick"

\* if 'nav_selection' not in st.session_state: st.session_state.nav_selection = None
InitNav(nav) == IF nav = Unset THEN None ELSE nav

\* a loop that stores the key only when it is truthy, "if nav_key and
\* st.sidebar.button(...)": a click on Home stores nothing
NavButtons_TruthyKey(nav, clicked) ==
    IF clicked # None /\ \E i \in DOMAIN nav_options : nav_options[i][2] = clicked
    THEN clicked ELSE nav

\* for label, nav_key in nav_options:
\*     if st.sidebar.button(label, key=f"nav_{nav_key}", ...):
\*         st.session_state.nav_selection = nav_key
\* clicked is the key of the button clicked in this run (one at most)
NavButtons(nav, clicked) ==
    IF \E i \in DOMAIN nav_options : nav_options[i][2] = clicked
    THEN clicked ELSE nav

\* no connection object
NoConnection == [id |-> 0]

\* the n-th connection object snowflake.connector.connect returned
Connection(n) == [id |-> n]

\* str(e) of the exception a failing snowflake.connector.connect raises
ConnectFailed == "connect failed"

\* get_connection without @st.cache_resource: every call connects
get_connection_uncached(cache, made, reachable) ==
    IF reachable
    THEN [conn |-> Connection(made + 1), cache |-> cache, made |-> made + 1,
          raised |-> FALSE]
    ELSE [conn |-> NoConnection, cache |-> cache, made |-> made, raised |-> TRUE]

\* @st.cache_resource get_connection(): the cached object when there is one;
\* else snowflake.connector.connect, whose result is cached when it returns
\* and whose exception is raised again, with nothing cached
get_connection(cache, made, reachable) ==
    IF cache # NoConnection
    THEN [conn |-> cache, cache |-> cache, made |-> made, raised |-> FALSE]
    ELSE IF reachable
    THEN [conn |-> Connection(made + 1), cache |-> Connection(made + 1),
          made |-> made + 1, raised |-> FALSE]
    ELSE [conn |-> NoConnection, cache |-> NoConnection, made |-> made,
          raised |-> TRUE]

\* a page on which no branch of main() has rendered
NoView == ""

\* up: the queries run; when it is FALSE cursor.execute raises
\* flaky: snowflake.connector.connect may raise; when it is FALSE it returns
EmptyWarehouse ==
    [up |-> TRUE, flaky |-> FALSE,
     rng_daily |-> <<>>, rng_city_daily |-> <<>>, rng_hourly_dpo |-> <<>>]

\* the one-row tables of rows that lack one of the measure columns
TablesWithout(rows) ==
    { drop_column(t, c) : t \in TablesOver(SetToSeq(rows), 1) \ {<<>>},
                          c \in Range(MeasureOrder) }

\* the warehouses that do not always accept a connection: with no rows, and
\* with one row in RNG_DAILY
FlakyWarehouses ==
    { [EmptyWarehouse EXCEPT !.flaky = TRUE, !.rng_daily = t] :
        t \in TablesOver(SetToSeq(DailyRows), 1) }

\* the warehouses of the model: rows in one table at a time, a table that
\* lacks a measure column, a warehouse whose queries fail, a warehouse that
\* does not always accept a connection
Warehouses ==
    { [EmptyWarehouse EXCEPT !.up = FALSE] }
    \cup FlakyWarehouses
    \cup { [EmptyWarehouse EXCEPT !.rng_daily = t] : t \in TablesWithout(DailyRows) }
    \cup { [EmptyWarehouse EXCEPT !.rng_city_daily = t] : t \in TablesWithout(CityRows) }
    \cup
    { [EmptyWarehouse EXCEPT !.rng_daily = t] : t \in DailyTables }
    \cup { [EmptyWarehouse EXCEPT !.rng_city_daily = t] : t \in CityTables }
    \cup { [EmptyWarehouse EXCEPT !.rng_hourly_dpo = t] : t \in HourlyTables }

\* utils.fetch_rng_daily_data: the rows of RNG_DAILY, or, when the query
\* raises, st.error(f"Error fetching RNG daily data: {e}") and no rows
fetch_rng_daily_data(wh) ==
    IF wh.up
    THEN [frame |-> wh.rng_daily, error |-> NoError]
    ELSE [frame |-> <<>>,
          error |-> [prefix |-> "Error fetching RNG daily data", detail |-> QueryFailed]]

\* main(), nav_selection == "rng": the table as the warehouse returns it
\* (its column names are not put in lower case, so sort_category_cohorts finds
\* no category and cohorts columns and returns the frame as it is)
RngView(wh) ==
    LET data == fetch_rng_daily_data(wh)
    IN  { [df |-> data.frame,
           page |-> [view |-> "rng",
                     info |-> IF data.frame = <<>> THEN "No data found" ELSE "",
                     blocks |-> NoBlocks, error |-> data.error]] }

\* the branch of main() taken for nav: the frames and pages the run may produce
ViewOutcomes(nav, wh, sel, cmp) ==
    CASE nav = "dod" -> DoDView(wh, sel, cmp)
      [] nav = "city" -> CityView(wh, sel, cmp)
      [] nav = "hourly_dpo" -> HourlyView(wh, sel, cmp)
      [] nav = "rng" -> RngView(wh)
      [] nav = "chart" -> ChartView(wh, sel)
      [] OTHER -> { [df |-> <<>>,
                     page |-> [view |-> "welcome", info |-> "", blocks |-> NoBlocks, error |-> NoError]] }

\* whether a connection attempt made now succeeds
Reachable(wh, cache) ==
    IF cache = NoConnection /\ wh.flaky THEN BOOLEAN ELSE {TRUE}

\* the rest of a run of main() once nav_selection is set: conn =
\* get_connection(), then the branch of nav; when get_connection raises, the
\* handler of the whole run shows the error and no branch renders
Rerun(nav, sel, cmp) ==
    \E reachable \in Reachable(warehouse, conn_cache) :
        LET c == get_connection(conn_cache, connects, reachable)
        IN  /\ conn_cache' = c.cache
            /\ connects' = c.made
            /\ conn' = c.conn
            /\ IF c.raised
               THEN /\ df' = <<>>
                    /\ rendered' = OuterExcept(NoView, ConnectFailed)
               ELSE \E o \in ViewOutcomes(nav, warehouse, sel, cmp) :
                        /\ df' = o.df
                        /\ rendered' = o.page

SorterIdle == UNCHANGED <<sort_in, sort_runs>>

\* a session of a fresh process before its first run: nothing in
\* st.session_state, nothing cached, nothing on the page
Init ==
    /\ conn_cache = NoConnection
    /\ connects = 0
    /\ conn = NoConnection
    /\ last_click = NoClick
    /\ nav_selection = Unset
    /\ selected_date = Today
    /\ compare_date = Today - WeekDays
    /\ warehouse \in Warehouses
    /\ df = <<>>
    /\ rendered = [view |-> NoView, info |-> "", blocks |-> NoBlocks, error |-> NoError]
    /\ sort_in = <<>>
    /\ sort_runs = <<>>

\* the first run of the session, when the page is opened: no button is there
\* to have been clicked
FirstRun ==
    /\ nav_selection = Unset
    /\ nav_selection' = NavButtons(InitNav(nav_selection), NoClick)
    /\ Rerun(nav_selection', selected_date, compare_date)
    /\ UNCHANGED <<last_click, selected_date, compare_date, warehouse>>
    /\ SorterIdle

\* a click on a navigation button: the run stores its key and renders that
\* view, whose date inputs start at their defaults
NavClick(k) ==
    /\ nav_selection # Unset
    /\ last_click' = k
    /\ nav_selection' = NavButtons(InitNav(nav_selection), k)
    /\ selected_date' = Today
    /\ compare_date' = Today - WeekDays
    /\ Rerun(nav_selection', Today, Today - WeekDays)
    /\ UNCHANGED warehouse
    /\ SorterIdle

\* the date inputs without max_value on "Compare with"
SelectDates_AnyOrder(sel, cmp) ==
    /\ nav_selection \in {"dod", "city", "hourly_dpo"}
    /\ rendered.view = nav_selection
    /\ selected_date' = sel
    /\ compare_date' = cmp
    /\ Rerun(nav_selection, sel, cmp)
    /\ UNCHANGED <<last_click, nav_selection, warehouse>>
    /\ SorterIdle

\* a change of the date inputs of a comparison view, which the last run put
\* on the page ("Compare with" has max_value = selected_date)
SelectDates(sel, cmp) ==
    /\ nav_selection \in {"dod", "city", "hourly_dpo"}
    /\ rendered.view = nav_selection
    /\ cmp <= sel
    /\ selected_date' = sel
    /\ compare_date' = cmp
    /\ Rerun(nav_selection, sel, cmp)
    /\ UNCHANGED <<last_click, nav_selection, warehouse>>
    /\ SorterIdle

\* a change of the date input of the chart view (max_value = today)
SelectChartDate(sel) ==
    /\ nav_selection = "chart"
    /\ rendered.view = nav_selection
    /\ selected_date' = sel
    /\ Rerun("chart", sel, compare_date)
    /\ UNCHANGED <<last_click, nav_selection, compare_date, warehouse>>
    /\ SorterIdle

Next ==
    \/ FirstRun
    \/ \E k \in NavKeys : NavClick(k)
    \/ \E sel \in Dates, cmp \in Dates : SelectDates(sel, cmp)
    \/ \E sel \in Dates : SelectChartDate(sel)

Spec == Init /\ [][Next]_vars

---------------------------------------------------------------------------
(* sort_category_cohorts on its own: frames of rows with the columns        *)
(* category, cohorts and one more column, and frames without them           *)

SortKeys == { <<"NU", "New Users">>, <<"DU_30_45_Days", "RU1-5">>,
              <<"Foo", "Bar">>, <<"Zed", "Qux">> }

SortRows == { [category |-> k[1], cohorts |-> k[2], tag |-> t] :
              k \in SortKeys, t \in {1, 2} }

PlainRows == { [city |-> c, tag |-> 1] : c \in {"BLR", "DEL"} }

RECURSIVE SeqsUpTo(_, _)
SeqsUpTo(S, n) ==
    IF n = 0 THEN {<<>>}
    ELSE LET P == SeqsUpTo(S, n - 1)
         IN  P \cup { Append(p, x) : p \in { q \in P : Len(q) = n - 1 }, x \in S }

SortFrames == SeqsUpTo(SortRows, MaxSortLen) \cup SeqsUpTo(PlainRows, MaxSortLen)

InitSort ==
    /\ conn_cache = NoConnection
    /\ connects = 0
    /\ conn = NoConnection
    /\ last_click = NoClick
    /\ nav_selection = None
    /\ selected_date = Today
    /\ compare_date = Today - WeekDays
    /\ warehouse = EmptyWarehouse
    /\ df = <<>>
    /\ rendered = [view |-> "welcome", info |-> "", blocks |-> NoBlocks, error |-> NoError]
    /\ sort_in \in SortFrames
    /\ sort_runs = <<>>

\* df = sort_category_cohorts(df)
SortCall ==
    /\ Len(sort_runs) < MaxSortCalls
    /\ \E s \in sort_category_cohorts(IF sort_runs = <<>> THEN sort_in
                                       ELSE sort_runs[Len(sort_runs)]) :
            sort_runs' = Append(sort_runs, s)
    /\ UNCHANGED <<conn_cache, connects, conn, last_click, nav_selection, selected_date,
                   compare_date, warehouse, df, rendered, sort_in>>

NextSort == SortCall

SpecSort == InitSort /\ [][NextSort]_vars

---------------------------------------------------------------------------
(* Properties *)

\* the cells of the comparison frames on the page: the rows of the DoD and
\* city tables, and the (row, hour) cells of the hourly change frames
DeltaCells ==
    IF rendered.view \in {"dod", "city"}
    THEN UNION { { [mode |-> "pct", metric |-> m, pct |-> r.pct, has_abs |-> TRUE,
                    abs |-> r.abs, selected |-> r.selected, compare |-> r.compare] :
                   r \in Range(rendered.blocks[m].table) } :
                 m \in DOMAIN rendered.blocks }
    ELSE IF rendered.view = "hourly_dpo"
    THEN UNION { UNION { { [mode |-> IF m = "pct_disc_orders" THEN "pp" ELSE "pct",
                            metric |-> m, pct |-> r.pct[h], has_abs |-> FALSE,
                            abs |-> Num(0), selected |-> r.selected[h],
                            compare |-> r.compare[h]] : h \in DOMAIN r.pct } :
                         r \in Range(rendered.blocks[m].change.rows) } :
                 m \in DOMAIN rendered.blocks }
    ELSE {}

\* C1: in every comparison view a cell whose compare value is 0 and whose
\* selected value is a non-zero number shows a percentage change of 0.
C1_ZeroCompareGivesZero ==
    \A c \in DeltaCells :
        (c.mode = "pct" /\ IsZero(c.compare) /\ IsNum(c.selected) /\ ~IsZero(c.selected))
            => c.pct = Num(0)

\* C2: no cell of a delta column (% change, absolute difference,
\* percentage-point change) is NaN, +inf or -inf.
C2_DeltaCellsFinite ==
    \A c \in DeltaCells : IsNum(c.pct) /\ (c.has_abs => IsNum(c.abs))

\* the pivot rows of a shown DoD or city block whose two date cells are both 0
ZeroRows(b) ==
    { r \in Range(b.pivot) : EqZero(r.cells[b.dates[1]]) /\ EqZero(r.cells[b.dates[2]]) }

HasVuPct(r) == "vu_pct" \in DOMAIN r \/ "vu_pct_city" \in DOMAIN r
VuPctOf(r) == IF "vu_pct" \in DOMAIN r THEN r.vu_pct ELSE r.vu_pct_city

\* C4: on every loaded row vu_pct is null exactly when base is 0, and is not
\* negative when it is defined.
C4_VuPctNullIffBaseZero ==
    \A r \in Range(df) :
        HasVuPct(r) =>
            /\ IsNaN(VuPctOf(r)) <=> IsZero(r.base)
            /\ ~IsNaN(VuPctOf(r)) => VuPctOf(r).n >= 0

RECURSIVE SumOver(_, _)
SumOver(I, f) ==
    IF I = {} THEN 0
    ELSE LET i == CHOOSE x \in I : TRUE
         IN  f[i] + SumOver(I \ {i}, f)

\* the row key of a loaded row in the view on the page
PageKey(r) == IF rendered.view = "dod" THEN <<r.category, r.cohorts>> ELSE <<r.city>>

\* the loaded rows behind the pivot cell (key, day)
CellRows(key, day) ==
    { i \in DOMAIN df : PageKey(df[i]) = key /\ df[i].start_date = day }

\* C5: a pivot of the DoD or city view has one row per row key, and the cell
\* of a summed count (base, visitors) is the sum over all loaded rows of that
\* key and date.
C5_PivotOneRowPerKey ==
    rendered.view \in {"dod", "city"} =>
        \A m \in DOMAIN rendered.blocks :
            LET rows == rendered.blocks[m].pivot
            IN  /\ \A i, j \in DOMAIN rows : rows[i].key = rows[j].key => i = j
                /\ m \in {"base", "visitors"} =>
                     \A i \in DOMAIN rows : \A d \in DOMAIN rows[i].cells :
                        LET I == CellRows(rows[i].key, d)
                            J == { x \in I : IsNum(df[x][m]) }
                        IN  rows[i].cells[d] =
                              IF I = {} THEN NaN
                              ELSE Num(SumOver(J, [x \in J |-> df[x][m].n]))

\* C5 witness: two loaded rows of one key and date with visitors 3 and 4, and
\* the visitors pivot holding one row for the key, with 7 in that cell.
C5_Witness ==
    /\ rendered.view = "dod"
    /\ \E i, j \in DOMAIN df :
        /\ i # j
        /\ PageKey(df[i]) = PageKey(df[j])
        /\ df[i].start_date = df[j].start_date
        /\ df[i].visitors = Num(3)
        /\ df[j].visitors = Num(4)
        /\ \E r \in Range(rendered.blocks["visitors"].pivot) :
              r.key = PageKey(df[i]) /\ r.cells[df[i].start_date] = Num(7)

\* C6: sorting a sorted frame again returns the frame of the first sort.
C6_SortIdempotent ==
    Len(sort_runs) >= 2 => sort_runs[2] = sort_runs[1]

Count(s, x) == Cardinality({ i \in DOMAIN s : s[i] = x })

SameRows(s, t) ==
    /\ Len(s) = Len(t)
    /\ \A x \in Range(s) \cup Range(t) : Count(s, x) = Count(t, x)

Canonical(row) ==
    \E i \in DOMAIN custom_order :
        custom_order[i][1] = row.category /\ custom_order[i][2] = row.cohorts

HasSortColumns(frame) == frame # <<>> /\ "category" \in DOMAIN frame[1]

\* C7: the sorter returns the rows it was given, none dropped, and every row
\* whose pair is not in the canonical list after every row whose pair is.
C7_UnknownLastNoneDropped ==
    Len(sort_runs) >= 1 =>
        LET out == sort_runs[1]
        IN  /\ SameRows(out, sort_in)
            /\ HasSortColumns(sort_in) =>
                 \A i, j \in DOMAIN out :
                    (~Canonical(out[i]) /\ Canonical(out[j])) => j < i

\* C7 witness: a frame with an unknown pair ahead of a canonical pair was sorted.
C7_Witness ==
    /\ Len(sort_runs) >= 1
    /\ HasSortColumns(sort_in)
    /\ \E i, j \in DOMAIN sort_in :
          i < j /\ ~Canonical(sort_in[i]) /\ Canonical(sort_in[j])
    /\ sort_runs[1] # sort_in

\* C8: a cell with a non-zero compare value shows
\* (selected - compare) / compare * 100 rounded to 1 decimal.
C8_PctChangeRounded ==
    \A c \in DeltaCells :
        (c.mode = "pct" /\ IsNum(c.compare) /\ ~IsZero(c.compare) /\ IsNum(c.selected))
            => c.pct = FRound(FMul100(FDiv(FSub(c.selected, c.compare), c.compare)), 1)

\* the two rows of the end-to-end scenario: (NU, New Users) with base 1000 on
\* the selected date and base 900 on the compare date, the other counts 0
ScenarioRow(day, base) ==
    [category |-> "NU", cohorts |-> "New Users", start_date |-> day,
     base |-> Num(base), visitors |-> Num(0), transacting_users |-> Num(0)]

InScenario ==
    /\ rendered.view = "dod"
    /\ selected_date = Today
    /\ compare_date = Today - WeekDays
    /\ SameRows(warehouse.rng_daily,
                <<ScenarioRow(Today, 1000), ScenarioRow(Today - WeekDays, 900)>>)

\* C9: in the end-to-end scenario the base pivot is the one row
\* {selected: 1000, compare: 900} and its delta row shows +100 and +11.1.
C9_EndToEnd ==
    InScenario =>
        LET b == rendered.blocks["base"]
        IN  /\ b.dates = <<Today - WeekDays, Today>>
            /\ Len(b.pivot) = 1
            /\ b.pivot[1].key = <<"NU", "New Users">>
            /\ b.pivot[1].cells[Today] = Num(1000)
            /\ b.pivot[1].cells[Today - WeekDays] = Num(900)
            /\ b.shown
            /\ Len(b.table) = 1
            /\ b.table[1].abs = Num(100)
            /\ b.table[1].pct = Frac(111, 10)
            /\ b.table[1].selected = Num(1000)
            /\ b.table[1].compare = Num(900)

\* C9 witness: the DoD view ran on the scenario.
C9_Witness == InScenario

\* C10: with selected date = compare date every cell of the delta output is
\* 0 (absolute difference and change alike), none is NaN.
C10_SelfCompareAllZero ==
    selected_date = compare_date =>
        \A c \in DeltaCells : c.pct = Num(0) /\ (c.has_abs => c.abs = Num(0))

\* the measure columns the frame loaded by the last run lacks
AbsentMeasures ==
    IF df = <<>> \/ rendered.view \notin {"dod", "city", "chart"} THEN {}
    ELSE { c \in {"transacting_users", "visitors", "base"} : c \notin DOMAIN df[1] }

\* C11: when the loaded result set lacks a measure column that a derived
\* metric needs, the run ends with an error that names the missing column and
\* is not reported as another kind of failure (nor passes without an error).
C11_MissingColumnError ==
    AbsentMeasures # {} =>
        /\ rendered.error.detail \in AbsentMeasures
        /\ rendered.error.prefix \notin {"", "Failed to connect to Snowflake"}

\* C12: in every view, a run whose warehouse query fails ends with the view's
\* empty-result message, the failure caught in the view and not by the
\* handler of the whole run.
C12_QueryFailureCaughtInView ==
    (~warehouse.up /\ rendered.view \in {"dod", "city", "hourly_dpo", "chart"}) =>
        /\ rendered.info # ""
        /\ rendered.error.prefix # "Failed to connect to Snowflake"

\* the texts of the two period columns of the table of metric m
PeriodTexts(m) ==
    UNION { { t.selected, t.compare } : t \in Range(rendered.blocks[m].styled) }

\* C13: in the tables that show them, the period values of vu_pct are written
\* as a percentage with one decimal and the period values of base as an
\* integer with comma grouping.
C13_PeriodFormats ==
    rendered.view \in {"dod", "city"} =>
        \A m \in DOMAIN rendered.blocks : \A t \in PeriodTexts(m) :
            /\ m \in {"vu_pct", "vu_pct_city"} => (t.decimals = 1 /\ t.suffix = "%")
            /\ m = "base" => (t.comma /\ t.decimals = 0 /\ t.suffix = "")

HasTuVuPct(r) == "tu_vu_pct" \in DOMAIN r \/ "tu_vu_pct_city" \in DOMAIN r
TuVuPctOf(r) == IF "tu_vu_pct" \in DOMAIN r THEN r.tu_vu_pct ELSE r.tu_vu_pct_city

\* C14: on every loaded row tu_vu_pct is null when visitors is 0, and is
\* transacting_users / visitors * 100 rounded to 2 decimals otherwise.
C14_TuVuPctNullOrRounded ==
    \A r \in Range(df) :
        HasTuVuPct(r) =>
            IF IsZero(r.visitors) THEN IsNaN(TuVuPctOf(r))
            ELSE TuVuPctOf(r) = FRound(FMul100(FDiv(r.transacting_users, r.visitors)), 2)

\* a row the 'visitors as % of base' filter drops
Excluded(r) == r.category \in {"NU", "Unassigned"} \/ IsZero(r.base)

\* the loaded rows the pivot of metric m is to be built from
SourceRows(m) ==
    { i \in DOMAIN df : ~(m \in {"vu_pct", "vu_pct_city"} /\ Excluded(df[i])) }

\* the row keys metric m has on a day
PeriodKeys(m, day) ==
    { PageKey(df[i]) : i \in { j \in SourceRows(m) : df[j].start_date = day } }

FrameKeys(rows) == { r.key : r \in Range(rows) }

\* C15, DoD and city: the two-date pivot has the union of the row keys of the
\* two dates, and a key without rows on one date has 0 in that date's column.
C15_DailyOuterJoin ==
    rendered.view \in {"dod", "city"} =>
        \A m \in DOMAIN rendered.blocks :
            LET b == rendered.blocks[m]
                ksel == PeriodKeys(m, b.dates[2])
                kcmp == PeriodKeys(m, b.dates[1])
            IN  b.shown =>
                  /\ FrameKeys(b.pivot) = ksel \cup kcmp
                  /\ \A r \in Range(b.pivot) :
                        /\ r.key \notin kcmp => r.cells[b.dates[1]] = Num(0)
                        /\ r.key \notin ksel => r.cells[b.dates[2]] = Num(0)

\* C15, hourly: the change frame has the union of the row keys of the two
\* pivots, and a key one pivot lacks has 0 in each hour column of that pivot.
C15_HourlyOuterJoin ==
    rendered.view = "hourly_dpo" =>
        \A m \in DOMAIN rendered.blocks :
            LET b == rendered.blocks[m]
                ksel == FrameKeys(b.pivot_sel.rows)
                kcmp == FrameKeys(b.pivot_cmp.rows)
            IN  b.shown =>
                  /\ FrameKeys(b.change.rows) = ksel \cup kcmp
                  /\ \A r \in Range(b.change.rows) :
                        /\ r.key \notin kcmp =>
                             \A h \in Range(b.pivot_cmp.columns) : r.compare[h] = Num(0)
                        /\ r.key \notin ksel =>
                             \A h \in Range(b.pivot_sel.columns) : r.selected[h] = Num(0)

\* C15: the selected and the compare period are aligned by an outer join on
\* the row keys, a key missing on one side valued 0 there, in the DoD, city
\* and hourly DPO views.
C15_OuterJoinZeroFill == C15_DailyOuterJoin /\ C15_HourlyOuterJoin

\* C16: in the DoD and city tables the column labeled Selected carries the
\* date and the values of the selected date, the column labeled Compare those
\* of the compare date, and Absolute Diff is selected minus compare.
C16_SelectedAndCompareColumns ==
    rendered.view \in {"dod", "city"} =>
        \A m \in DOMAIN rendered.blocks :
            LET b == rendered.blocks[m]
            IN  b.shown =>
                  \A t \in Range(b.table) :
                     /\ t.selected_label = selected_date
                     /\ t.compare_label = compare_date
                     /\ \E r \in Range(b.pivot) :
                           /\ r.key = t.key
                           /\ t.selected = r.cells[selected_date]
                           /\ t.compare = r.cells[compare_date]
                     /\ t.abs = FSub(t.selected, t.compare)

\* C16 witness: a table row whose selected and compare values are two
\* different numbers.
C16_Witness ==
    /\ rendered.view \in {"dod", "city"}
    /\ \E m \in DOMAIN rendered.blocks : \E t \in Range(rendered.blocks[m].table) :
          IsNum(t.selected) /\ IsNum(t.compare) /\ t.selected # t.compare

\* the rank of a row: the place of its pair in the canonical list, counted
\* from 0, and the length of the list for a pair that is not in it
RankOf(row) ==
    IF Canonical(row)
    THEN (CHOOSE i \in DOMAIN custom_order :
              custom_order[i] = <<row.category, row.cohorts>>) - 1
    ELSE Len(custom_order)

\* the rows of frame of rank k and more, by rank, rows of one rank in the
\* order they have in frame
RECURSIVE StableFrom(_, _)
StableFrom(frame, k) ==
    IF k > Len(custom_order) THEN <<>>
    ELSE SelectSeq(frame, LAMBDA r : RankOf(r) = k) \o StableFrom(frame, k + 1)

\* C17: the sorter is stable: it returns the rows by rank, rows of equal rank
\* in the relative order they had in its argument.
C17_SortIsStable ==
    (Len(sort_runs) >= 1 /\ HasSortColumns(sort_in)) =>
        sort_runs[1] = StableFrom(sort_in, 0)

\* the values of metric m on the loaded rows of a key and a day that the
\* pivot of m is to be built from
SourceValues(m, key, day) ==
    LET rows == SelectSeq(df, LAMBDA r :
                    /\ PageKey(r) = key
                    /\ r.start_date = day
                    /\ ~(m \in {"vu_pct", "vu_pct_city"} /\ Excluded(r)))
    IN  [i \in DOMAIN rows |-> rows[i][m]]

\* the aggregate the page's view takes of the values of metric m
PageAgg(m, vals) ==
    IF rendered.view = "city" /\ m \in {"tu_vu_pct_city", "vu_pct_city"}
    THEN AggMean(vals) ELSE AggSum(vals)

\* the cell of a key and a day in a pivot, NaN when the pivot has no such cell
CellOf(rows, key, day) ==
    IF \E r \in Range(rows) : r.key = key /\ day \in DOMAIN r.cells
    THEN (CHOOSE r \in Range(rows) : r.key = key).cells[day]
    ELSE NaN

\* C18: the pivot of vu_pct (vu_pct_city) is built from the loaded rows whose
\* category is neither NU nor Unassigned and whose base is not 0, and the
\* pivot of every other metric of the DoD and city views from all loaded rows.
C18_VuPctFilterOnlyForVuPct ==
    rendered.view \in {"dod", "city"} =>
        \A m \in DOMAIN rendered.blocks :
            LET b == rendered.blocks[m]
                keys == UNION { PeriodKeys(m, d) : d \in Dates }
            IN  /\ FrameKeys(b.pivot) = keys
                /\ \A k \in keys : \A d \in Dates :
                      CellOf(b.pivot, k, d) =
                        IF SourceValues(m, k, d) = <<>> THEN NaN
                        ELSE FRound(PageAgg(m, SourceValues(m, k, d)), 2)

\* C18 witness: a DoD page whose loaded rows hold a row the filter drops, its
\* key in the pivot of base and not in the pivot of vu_pct, which is not empty.
C18_Witness ==
    /\ rendered.view = "dod"
    /\ DOMAIN rendered.blocks # {}
    /\ \E r \in Range(df) :
          /\ Excluded(r)
          /\ PageKey(r) \in FrameKeys(rendered.blocks["base"].pivot)
          /\ PageKey(r) \notin FrameKeys(rendered.blocks["vu_pct"].pivot)
    /\ rendered.blocks["vu_pct"].pivot # <<>>

\* the aggregate of the static mapping: mean for the ratio metrics, sum for
\* the volume metrics
MappedAgg(m, vals) ==
    IF m \in {"tu_vu_pct", "vu_pct", "tu_vu_pct_city", "vu_pct_city"}
    THEN AggMean(vals) ELSE AggSum(vals)

\* C19: in the DoD and city views alike a pivot cell of a ratio metric is the
\* mean, and a pivot cell of a volume metric the sum, of the values of its
\* rows.
C19_AggregationByMetricKind ==
    rendered.view \in {"dod", "city"} =>
        \A m \in DOMAIN rendered.blocks : \A d \in Dates :
            \A k \in PeriodKeys(m, d) :
                CellOf(rendered.blocks[m].pivot, k, d) =
                    FRound(MappedAgg(m, SourceValues(m, k, d)), 2)

\* C20: in percentage-point mode (pct_disc_orders of the hourly view) a delta
\* cell is selected minus compare, with no division, rounded to 1 decimal.
C20_PpDeltaRounded ==
    \A c \in DeltaCells :
        (c.mode = "pp" /\ IsNum(c.selected) /\ IsNum(c.compare))
            => c.pct = FRound(FSub(c.selected, c.compare), 1)

\* C21: after the hourly DPO view has aligned the two pivots, both have the
\* same row keys and the same hour columns, and every cell of their difference
\* is computed from two defined values.
C21_HourlyAlignedSameKeys ==
    rendered.view = "hourly_dpo" =>
        \A m \in DOMAIN rendered.blocks :
            LET b == rendered.blocks[m]
            IN  b.shown =>
                  /\ FrameKeys(b.change.aligned_sel.rows) = FrameKeys(b.change.aligned_cmp.rows)
                  /\ Range(b.change.aligned_sel.columns) = Range(b.change.aligned_cmp.columns)
                  /\ \A r \in Range(b.change.rows) : \A h \in DOMAIN r.pct :
                        ~IsNaN(r.selected[h]) /\ ~IsNaN(r.compare[h])

\* C22: over the runs of main() in one process the warehouse connection is
\* created by the first run that gets one, and from then on no run creates
\* another: every later run works with the cached connection object.
C22_ConnectionCreatedOnce ==
    [][ /\ (conn_cache = NoConnection) <=> (connects = 0)
        /\ conn_cache # NoConnection =>
              /\ conn_cache' = conn_cache
              /\ connects' = connects
              /\ conn' = conn_cache
        /\ (conn_cache = NoConnection /\ conn_cache' # NoConnection) =>
              /\ connects' = 1
              /\ conn' = conn_cache' ]_vars

\* C22 witness: a warehouse that does not always accept a connection, and a
\* comparison view with selected date = compare date, which takes three runs
\* at least, on the one connection the process has created.
C22_Witness ==
    /\ warehouse.flaky
    /\ conn_cache # NoConnection
    /\ conn = conn_cache
    /\ connects = 1
    /\ rendered.view \in {"dod", "city", "hourly_dpo"}
    /\ selected_date = compare_date

\* the key of the navigation button clicked last, None before any click
LastClicked == IF last_click = NoClick THEN None ELSE last_click

\* the page of the key nav: its view, the welcome page for None
ViewOfNav(nav) == IF nav = None THEN "welcome" ELSE nav

\* the part of C23 on session_state: after any run nav_selection is a key of
\* nav_options, the one of the button clicked last, and the page is not the
\* one of the 'rng' branch
NavIsLastClick ==
    /\ nav_selection \in NavKeys
    /\ nav_selection = LastClicked
    /\ rendered.view # "rng"

\* C23, as stated: after any sequence of clicks and reruns nav_selection is
\* the key of the navigation button clicked last, the 'rng' branch is never
\* taken, and each run renders exactly one view or the welcome page.
C23_OneViewEveryRun ==
    nav_selection # Unset =>
        /\ NavIsLastClick
        /\ rendered.view = ViewOfNav(nav_selection)

\* C23, as amended: ... and each run that gets the warehouse connection
\* renders the view of nav_selection or the welcome page, while a run whose
\* connection attempt fails renders the error of that failure and no view.
C23_OneViewWhenConnected ==
    nav_selection # Unset =>
        /\ NavIsLastClick
        /\ IF conn # NoConnection
           THEN rendered.view = ViewOfNav(nav_selection)
           ELSE rendered = OuterExcept(NoView, ConnectFailed)

\* C23 witness: the welcome page after a click on Home, on a connection.
C23_Witness ==
    /\ last_click = None
    /\ nav_selection = None
    /\ conn # NoConnection
    /\ rendered.view = "welcome"

\* the dates of the loaded rows
LoadedDates == { r.start_date : r \in Range(df) }

\* the dates that have a value in the pivot of a block
PivotDates(b) == UNION { { d \in DOMAIN r.cells : ~IsNaN(r.cells[d]) } : r \in Range(b.pivot) }

\* C24: in the DoD and city views the delta table of a metric is computed and
\* rendered only when the metric's pivot has exactly two distinct date
\* columns, the compare date and the selected date; when the loaded rows cover
\* a single date no table is rendered for any metric.
C24_TableOnlyForTwoDates ==
    rendered.view \in {"dod", "city"} =>
        \A m \in DOMAIN rendered.blocks :
            LET b == rendered.blocks[m]
            IN  /\ b.shown <=> Cardinality(PivotDates(b)) = 2
                /\ b.shown => (b.dates = <<compare_date, selected_date>>
                               /\ compare_date < selected_date)
                /\ ~b.shown => (b.table = <<>> /\ b.styled = <<>>)
                /\ Cardinality(LoadedDates) < 2 => ~b.shown
                /\ \A t \in Range(b.table) :
                      \E r \in Range(b.pivot) :
                         /\ r.key = t.key
                         /\ t.selected = r.cells[selected_date]
                         /\ t.compare = r.cells[compare_date]

\* C24 witness: a DoD or city page whose loaded rows cover one date, with a
\* pivot that is not empty and no table.
C24_Witness ==
    /\ rendered.view \in {"dod", "city"}
    /\ Cardinality(LoadedDates) = 1
    /\ \E m \in DOMAIN rendered.blocks :
          rendered.blocks[m].pivot # <<>> /\ ~rendered.blocks[m].shown

====
